---- MODULE Spec2Model ----
(***************************************************************************)
(* Model of src/ecs/component/instance.rs: the grid-instance generator     *)
(* (InstanceComponent::create_instances), the per-instance encoder         *)
(* (Instance::to_raw) and the construction of the instance buffer contents *)
(* (InstanceComponent::new / create_instance_buffer).                      *)
(*                                                                         *)
(* f32 values are modelled in fixed point: the integer v stands for the    *)
(* real v / Scale.  Like f32 the format is finite: every result is rounded *)
(* to the nearest value it holds, and a product too small for it rounds to *)
(* 0 (underflow: for f32 below 2^-150, here below 1 / (2 * Scale)).  The   *)
(* IEEE infinities and NaN are kept as distinguished values, with the IEEE *)
(* rules: x / 0 is an infinity, 0 * inf and inf - inf are NaN, and NaN     *)
(* propagates through every operator.                                      *)
(***************************************************************************)
EXTENDS Integers, Sequences, FiniteSets, TLC

\* ------------------------------------------------------------------ bounds
\* Fixed-point resolution: Half stands for 0.5, Scale for 1.0.
Half == 500
\* Grid sizes the callers of new() are drawn from: 0..MaxGrid.
MaxGrid == 3
\* Displacement components are drawn from -0.5, 0, 0.5, ..., MaxDisp * 0.5.
MaxDisp == 2

Scale == 2 * Half

\* -------------------------------------------------------------- f32 model
\* The quiet NaN of f32 (bit pattern 0x7FC00000), kept as its own value.
NaN == 127 * 16777216 + 192 * 65536

\* The infinities of f32 (bit patterns 0x7F800000 and 0xFF800000).
PosInf == 127 * 16777216 + 128 * 65536
NegInf == -(128 * 65536)

IsInf(a) == a = PosInf \/ a = NegInf
IsFinite(a) == a # NaN /\ ~IsInf(a)

\* -1, 0 or 1: the sign of a value that is not NaN.
Sign(a) == IF a > 0 THEN 1 ELSE IF a < 0 THEN -1 ELSE 0

SignedInf(sign) == IF sign > 0 THEN PosInf ELSE NegInf

\* The smallest positive value of the format.  Its square underflows to 0,
\* as that of a small finite f32 (1.0e-25, say) does.
Tiny == 1

\* n / d rounded to the nearest integer (d > 0).
RoundDiv(n, d) == (2 * n + d) \div (2 * d)

FNeg(a) ==
    IF a = NaN THEN NaN
    ELSE IF a = PosInf THEN NegInf
    ELSE IF a = NegInf THEN PosInf
    ELSE -a

FAdd(a, b) ==
    IF a = NaN \/ b = NaN THEN NaN
    ELSE IF IsFinite(a) /\ IsFinite(b) THEN a + b
    ELSE IF IsInf(a) /\ IsInf(b) /\ a # b THEN NaN
    ELSE IF IsInf(a) THEN a
    ELSE b

FSub(a, b) == FAdd(a, FNeg(b))

FMul(a, b) ==
    IF a = NaN \/ b = NaN THEN NaN
    ELSE IF IsFinite(a) /\ IsFinite(b) THEN RoundDiv(a * b, Scale)
    ELSE IF Sign(a) * Sign(b) = 0 THEN NaN
    ELSE SignedInf(Sign(a) * Sign(b))

FDiv(a, b) ==
    IF a = NaN \/ b = NaN THEN NaN
    ELSE IF b = 0 THEN (IF a = 0 THEN NaN ELSE SignedInf(Sign(a)))
    ELSE IF IsInf(b) THEN (IF IsInf(a) THEN NaN ELSE 0)
    ELSE IF IsInf(a) THEN SignedInf(Sign(a) * Sign(b))
    ELSE IF b < 0 THEN RoundDiv(-(a * Scale), -b)
    ELSE RoundDiv(a * Scale, b)

\* Largest r in lo..hi with r * r <= n (hi * hi > n or hi = lo).
RECURSIVE SqrtSearch(_, _, _)
SqrtSearch(n, lo, hi) ==
    IF hi - lo <= 1 THEN lo
    ELSE LET mid == (lo + hi) \div 2
         IN  IF mid * mid <= n THEN SqrtSearch(n, mid, hi)
             ELSE SqrtSearch(n, lo, mid)

\* f32::sqrt of a non-negative value.
FSqrt(a) ==
    IF a = NaN \/ a < 0 THEN NaN
    ELSE IF a = PosInf THEN PosInf
    ELSE SqrtSearch(a * Scale, 0, 46340)

\* `x as f32` for a u32 grid coordinate.
AsF32(u) == u * Scale

\* -------------------------------------------------------- cgmath::Vector3
Vector3(x, y, z) == [x |-> x, y |-> y, z |-> z]

\* Vector3::unit_z()
unit_z == Vector3(0, 0, Scale)

\* Vector3 - Vector3
VSub(a, b) == Vector3(FSub(a.x, b.x), FSub(a.y, b.y), FSub(a.z, b.z))

\* Vector3 * scalar
VScale(v, s) == Vector3(FMul(v.x, s), FMul(v.y, s), FMul(v.z, s))

\* Zero::is_zero: exact comparison with the zero vector.
is_zero(v) == v.x = 0 /\ v.y = 0 /\ v.z = 0

\* InnerSpace::magnitude: sqrt(dot(v, v)).
magnitude(v) == FSqrt(FAdd(FAdd(FMul(v.x, v.x), FMul(v.y, v.y)), FMul(v.z, v.z)))

\* InnerSpace::normalize: v * (1 / magnitude(v)).  For a v whose computed
\* magnitude is 0 the factor is 1 / 0 = inf, so every non-zero component
\* becomes an infinity and every zero component 0 * inf = NaN.
normalize(v) == VScale(v, FDiv(Scale, magnitude(v)))

\* ------------------------------------------------------------ cgmath::Deg
\* Deg(a) for a whole number of degrees a.
Deg(a) == a * Scale

\* Rad::from(Deg): a * pi / 180, with pi = 355 / 113.
DegToRad(d) == RoundDiv(d * 355, 113 * 180)

\* sin and cos of an angle in radians (|r| <= pi / 2), by their Taylor series.
FSin(r) ==
    LET r2 == FMul(r, r)
        r3 == FMul(r2, r)
        r5 == FMul(r3, r2)
    IN  r - RoundDiv(r3, 6) + RoundDiv(r5, 120)

FCos(r) ==
    LET r2 == FMul(r, r)
        r4 == FMul(r2, r2)
        r6 == FMul(r4, r2)
    IN  Scale - RoundDiv(r2, 2) + RoundDiv(r4, 24) - RoundDiv(r6, 720)

\* ----------------------------------------------------- cgmath::Quaternion
Quaternion(s, v) == [s |-> s, v |-> v]

\* Quaternion::from_axis_angle(axis, angle):
\*   let (s, c) = sin_cos(angle * 0.5); from_sv(c, axis * s)
from_axis_angle(axis, angle) ==
    LET half == FMul(DegToRad(angle), Half)
    IN  Quaternion(FCos(half), VScale(axis, FSin(half)))

\* -------------------------------------------------------- cgmath::Matrix4
Vector4(x, y, z, w) == [x |-> x, y |-> y, z |-> z, w |-> w]

\* Matrix4::new takes its sixteen entries column by column; x, y, z, w are
\* the four columns.
Matrix4(c0, c1, c2, c3) == [x |-> c0, y |-> c1, z |-> c2, w |-> c3]

V4Add(a, b) == Vector4(FAdd(a.x, b.x), FAdd(a.y, b.y), FAdd(a.z, b.z), FAdd(a.w, b.w))
V4Scale(v, s) == Vector4(FMul(v.x, s), FMul(v.y, s), FMul(v.z, s), FMul(v.w, s))

\* Matrix4::from_translation(v)
from_translation(v) ==
    Matrix4(Vector4(Scale, 0, 0, 0),
            Vector4(0, Scale, 0, 0),
            Vector4(0, 0, Scale, 0),
            Vector4(v.x, v.y, v.z, Scale))

\* Variant of Matrix4::from(Quaternion): the diagonal built from zero, not one.
Matrix4FromQuaternionNoOne(quat) ==
    LET x2 == FAdd(quat.v.x, quat.v.x)
        y2 == FAdd(quat.v.y, quat.v.y)
        z2 == FAdd(quat.v.z, quat.v.z)
        xx2 == FMul(x2, quat.v.x)
        xy2 == FMul(x2, quat.v.y)
        xz2 == FMul(x2, quat.v.z)
        yy2 == FMul(y2, quat.v.y)
        yz2 == FMul(y2, quat.v.z)
        zz2 == FMul(z2, quat.v.z)
        sy2 == FMul(y2, quat.s)
        sz2 == FMul(z2, quat.s)
        sx2 == FMul(x2, quat.s)
    IN  Matrix4(
          Vector4(FSub(FSub(0, yy2), zz2), FAdd(xy2, sz2), FSub(xz2, sy2), 0),
          Vector4(FSub(xy2, sz2), FSub(FSub(0, xx2), zz2), FAdd(yz2, sx2), 0),
          Vector4(FAdd(xz2, sy2), FSub(yz2, sx2), FSub(FSub(0, xx2), yy2), 0),
          Vector4(0, 0, 0, Scale))

\* Matrix4::from(Quaternion)
Matrix4FromQuaternion(quat) ==
    LET x2 == FAdd(quat.v.x, quat.v.x)
        y2 == FAdd(quat.v.y, quat.v.y)
        z2 == FAdd(quat.v.z, quat.v.z)
        xx2 == FMul(x2, quat.v.x)
        xy2 == FMul(x2, quat.v.y)
        xz2 == FMul(x2, quat.v.z)
        yy2 == FMul(y2, quat.v.y)
        yz2 == FMul(y2, quat.v.z)
        zz2 == FMul(z2, quat.v.z)
        sy2 == FMul(y2, quat.s)
        sz2 == FMul(z2, quat.s)
        sx2 == FMul(x2, quat.s)
    IN  Matrix4(
          Vector4(FSub(FSub(Scale, yy2), zz2), FAdd(xy2, sz2), FSub(xz2, sy2), 0),
          Vector4(FSub(xy2, sz2), FSub(FSub(Scale, xx2), zz2), FAdd(yz2, sx2), 0),
          Vector4(FAdd(xz2, sy2), FSub(yz2, sx2), FSub(FSub(Scale, xx2), yy2), 0),
          Vector4(0, 0, 0, Scale))

\* Matrix4 * Vector4: the columns of a weighted by the components of v.
MulVector(a, v) ==
    V4Add(V4Add(V4Add(V4Scale(a.x, v.x), V4Scale(a.y, v.y)), V4Scale(a.z, v.z)),
          V4Scale(a.w, v.w))

\* Variant of the matrix product: the operands exchanged (rhs * lhs).
MulMatrixSwapped(lhs, rhs) ==
    Matrix4(MulVector(rhs, lhs.x), MulVector(rhs, lhs.y),
            MulVector(rhs, lhs.z), MulVector(rhs, lhs.w))

\* Matrix4 * Matrix4: column j of the product is lhs * (column j of rhs).
MulMatrix(lhs, rhs) ==
    Matrix4(MulVector(lhs, rhs.x), MulVector(lhs, rhs.y),
            MulVector(lhs, rhs.z), MulVector(lhs, rhs.w))

\* Into<[[f32; 4]; 4]> for Matrix4: model[c][r], columns first.
IntoArray(m) ==
    << <<m.x.x, m.x.y, m.x.z, m.x.w>>, <<m.y.x, m.y.y, m.y.z, m.y.w>>,
       <<m.z.x, m.z.y, m.z.z, m.z.w>>, <<m.w.x, m.w.y, m.w.z, m.w.w>> >>

\* ----------------------------------------------------------------- Instance
Instance(position, rotation) == [position |-> position, rotation |-> rotation]

InstanceRaw(model) == [model |-> model]

\* Instance::to_raw
to_raw(self) ==
    InstanceRaw(IntoArray(MulMatrix(from_translation(self.position),
                                    Matrix4FromQuaternion(self.rotation))))

\* ------------------------------------------------------ bytemuck::cast_slice
\* The four bytes of one f32, least significant first, of the 32-bit word
\* that stands for it.
F32Bytes(v) ==
    LET b0 == v % 256
        v1 == (v - b0) \div 256
        b1 == v1 % 256
        v2 == (v1 - b1) \div 256
        b2 == v2 % 256
        v3 == (v2 - b2) \div 256
    IN  <<b0, b1, b2, v3 % 256>>

\* The value four such bytes stand for.
F32FromBytes(b) ==
    b[1] + 256 * b[2] + 65536 * b[3]
      + 16777216 * (IF b[4] >= 128 THEN b[4] - 256 ELSE b[4])

\* The bytes of one InstanceRaw: model[0][0], model[0][1], ..., model[3][3].
RawBytes(raw) ==
    LET col(c) == F32Bytes(raw.model[c][1]) \o F32Bytes(raw.model[c][2])
                    \o F32Bytes(raw.model[c][3]) \o F32Bytes(raw.model[c][4])
    IN  col(1) \o col(2) \o col(3) \o col(4)

\* cast_slice(&[InstanceRaw]) -> &[u8]: the elements' bytes, in order.
RECURSIVE cast_slice(_)
cast_slice(data) ==
    IF data = <<>> THEN <<>>
    ELSE RawBytes(Head(data)) \o cast_slice(Tail(data))

\* -------------------------------------------------------- program constants
DEFAULT_INSTANCES_PER_ROW == 10

SINGLE_INSTANCE_DISPLACEMENT == Vector3(0, 0, 0)

\* Variant of the grid preset's displacement: the midpoint of the cells 0..9.
FancyCellMidpoint ==
    Vector3(FMul(AsF32(DEFAULT_INSTANCES_PER_ROW - 1), Half), 0,
            FMul(AsF32(DEFAULT_INSTANCES_PER_ROW - 1), Half))

\* (DEFAULT_INSTANCES_PER_ROW as f32 * 0.5, 0.0, DEFAULT_INSTANCES_PER_ROW as f32 * 0.5)
FANCY_MULTI_INSTANCE_DISPLACEMENT ==
    Vector3(FMul(AsF32(DEFAULT_INSTANCES_PER_ROW), Half), 0,
            FMul(AsF32(DEFAULT_INSTANCES_PER_ROW), Half))

\* --------------------------------------------------------- create_instances
\* Variant of the range: 0..=n.
RangeInclusive(n) == [i \in 1..(n + 1) |-> i - 1]

\* The range 0..n as the sequence 0, 1, ..., n - 1.
Range(n) == [i \in 1..n |-> i - 1]

\* Variant of the rotation: no test for the zero position.
RotationNoZeroCheck(position) == from_axis_angle(normalize(position), Deg(45))

\* The rotation create_instances gives the instance at `position`.
RotationOf(position) ==
    IF is_zero(position) THEN from_axis_angle(unit_z, Deg(0))
    ELSE from_axis_angle(normalize(position), Deg(45))

\* Variant of the closure body: x and z exchanged.
CellXZSwapped(x, z, instance_displacement) ==
    LET position == VSub(Vector3(AsF32(z), 0, AsF32(x)), instance_displacement)
    IN  Instance(position, RotationOf(position))

\* The closure body: the instance of the cell (x, z).
Cell(x, z, instance_displacement) ==
    LET position == VSub(Vector3(AsF32(x), 0, AsF32(z)), instance_displacement)
    IN  Instance(position, RotationOf(position))

\* (0..n).map(move |x| ...) for one z: the cells of one row, x ascending.
Row(z, num_instances_per_row, instance_displacement) ==
    LET xs == Range(num_instances_per_row)
    IN  [i \in 1..Len(xs) |-> Cell(xs[i], z, instance_displacement)]

\* flat_map: the rows of zs[from..], concatenated in order.
RECURSIVE FlatMapRows(_, _, _, _)
FlatMapRows(zs, from, num_instances_per_row, instance_displacement) ==
    IF from > Len(zs) THEN <<>>
    ELSE Row(zs[from], num_instances_per_row, instance_displacement)
           \o FlatMapRows(zs, from + 1, num_instances_per_row, instance_displacement)

\* ------------------------------------------------------------------- state
VARIABLES
    args,                   \* <<n, d>>: what the caller passes to new()
    constructed,            \* whether an InstanceComponent has been built
    via,                    \* the constructor that built it: "new" or "default"
    num_instances_per_row,  \* InstanceComponent.num_instances_per_row
    instance_displacement,  \* InstanceComponent.instance_displacement
    instances,              \* InstanceComponent.instances
    instance_buffer,        \* the contents InstanceComponent.instance_buffer was created with
    previous,               \* <<instances>> of the component this one replaced, when it
                            \*   was built from the same arguments; <<>> otherwise
    self,                   \* the Instance to_raw was last called on, as <<instance>>
    raw                     \* what that call returned, as <<InstanceRaw>>

vars == <<args, constructed, via, num_instances_per_row, instance_displacement, instances,
          instance_buffer, previous, self, raw>>

component == <<constructed, via, num_instances_per_row, instance_displacement,
               instances, instance_buffer, previous>>

\* Variant of create_instances: the result carries over an instance of the
\* component built before.
create_instances_leaky(n, d) ==
    FlatMapRows(Range(n), 1, n, d)
      \o (IF instances = <<>> THEN <<>> ELSE <<instances[1]>>)

\* InstanceComponent::create_instances
create_instances(n, d) == FlatMapRows(Range(n), 1, n, d)

\* Variant of the map over the instances: last instance first.
map_to_raw_reversed(insts) ==
    [i \in 1..Len(insts) |-> to_raw(insts[Len(insts) + 1 - i])]

\* instances.iter().map(Instance::to_raw).collect()
map_to_raw(insts) == [i \in 1..Len(insts) |-> to_raw(insts[i])]

\* The contents create_instance_buffer hands to create_buffer_init.
create_instance_buffer(insts) == cast_slice(map_to_raw(insts))

\* ------------------------------------------------------------------ inputs
DisplacementValues == {k * Half : k \in -1..MaxDisp}

Displacements ==
    {Vector3(x, y, z) : x \in DisplacementValues \cup {Tiny}, y \in {0, Half},
                        z \in DisplacementValues}

\* The arguments callers pass to new(): small grids with any displacement, and
\* the grid preset.
NewArguments ==
    ((0..MaxGrid) \X Displacements)
      \cup {<<DEFAULT_INSTANCES_PER_ROW, FANCY_MULTI_INSTANCE_DISPLACEMENT>>}

\* Instances to_raw is called on directly: any position with any rotation,
\* unit or not, finite or not, and the rotations create_instances builds.
ProbePositions ==
    {Vector3(x, y, z) : x \in {-Scale, 0, 3 * Half}, y \in {0, Half}, z \in {-Half, 0, Scale}}

ProbeRotations ==
    {Quaternion(s, Vector3(x, y, z)) :
        s \in {0, Scale, 924}, x \in {0, 383, NaN, NegInf}, y \in {0, -Half},
        z \in {0, Scale}}

ProbeInstances ==
    {Instance(p, r) : p \in ProbePositions, r \in ProbeRotations}
      \cup {Instance(p, RotationOf(p)) : p \in ProbePositions}

\* ----------------------------------------------------------------- actions
\* InstanceComponent::new(device, n, d): the struct it returns, the buffer
\* standing for the contents it was created with.
new(n, d) ==
    LET made == create_instances(n, d)
    IN  [num_instances_per_row |-> n,
         instance_displacement |-> d,
         instance_buffer |-> create_instance_buffer(made),
         instances |-> made]

\* InstanceComponent::default(device)
default == new(0, SINGLE_INSTANCE_DISPLACEMENT)

\* <<instances>> of the current component when `c` was built from the same
\* arguments as it.
Replaced(c) ==
    IF constructed /\ num_instances_per_row = c.num_instances_per_row
         /\ instance_displacement = c.instance_displacement
    THEN <<instances>> ELSE <<>>

\* A caller builds a component with new(device, args).
New ==
    LET c == new(args[1], args[2])
    IN  /\ constructed' = TRUE
        /\ via' = "new"
        /\ num_instances_per_row' = c.num_instances_per_row
        /\ instance_displacement' = c.instance_displacement
        /\ instances' = c.instances
        /\ instance_buffer' = c.instance_buffer
        /\ previous' = Replaced(c)
        /\ UNCHANGED <<args, self, raw>>

\* A caller builds a component with default(device).
Default ==
    LET c == default
    IN  /\ constructed' = TRUE
        /\ via' = "default"
        /\ num_instances_per_row' = c.num_instances_per_row
        /\ instance_displacement' = c.instance_displacement
        /\ instances' = c.instances
        /\ instance_buffer' = c.instance_buffer
        /\ previous' = Replaced(c)
        /\ UNCHANGED <<args, self, raw>>

\* A caller encodes one instance with to_raw.
ToRaw ==
    /\ self # <<>>
    /\ raw' = <<to_raw(self[1])>>
    /\ UNCHANGED <<args, self, component>>

NoComponent ==
    /\ constructed = FALSE
    /\ via = "none"
    /\ num_instances_per_row = 0
    /\ instance_displacement = SINGLE_INSTANCE_DISPLACEMENT
    /\ instances = <<>>
    /\ instance_buffer = <<>>
    /\ previous = <<>>

\* Construction: the caller's arguments are drawn, nothing is built yet.
Init ==
    /\ args \in NewArguments
    /\ NoComponent
    /\ self = <<>>
    /\ raw = <<>>

Next == New \/ Default

Spec == Init /\ [][Next]_vars

\* Encoding alone: the instance to encode is drawn, nothing is encoded yet.
InitRaw ==
    /\ args = <<0, SINGLE_INSTANCE_DISPLACEMENT>>
    /\ NoComponent
    /\ self \in {<<i>> : i \in ProbeInstances}
    /\ raw = <<>>

NextRaw == ToRaw

SpecRaw == InitRaw /\ [][NextRaw]_vars

\* ==================================================================== claims
Abs(a) == IF a < 0 THEN -a ELSE a

ZeroVector == Vector3(0, 0, 0)

\* The identity quaternion: s = 1, v = 0.
IdentityRotation == Quaternion(Scale, ZeroVector)

\* 1000 * cos(22.5 deg) and its value at the model's resolution.
Cos22_5 == RoundDiv(92388 * Scale, 100000)

\* Some component of the quaternion is an infinity or NaN.
NotFinite(q) ==
    ~IsFinite(q.s) \/ ~IsFinite(q.v.x) \/ ~IsFinite(q.v.y) \/ ~IsFinite(q.v.z)

\* The rotation q is, to the model's resolution, a unit quaternion turning by
\* 45 degrees about the direction of p: its scalar part is cos(22.5 deg), its
\* length is 1 to within 1 %, and its vector part is parallel to p and points
\* the same way.
Is45DegreesAbout(q, p) ==
    LET l1 == Abs(p.x) + Abs(p.y) + Abs(p.z)
    IN  /\ ~NotFinite(q)
        /\ Abs(q.s - Cos22_5) <= 1
        /\ Abs(q.s * q.s + q.v.x * q.v.x + q.v.y * q.v.y + q.v.z * q.v.z
                 - Scale * Scale) * 100 <= Scale * Scale
        /\ Abs(q.v.y * p.z - q.v.z * p.y) <= 2 * l1
        /\ Abs(q.v.z * p.x - q.v.x * p.z) <= 2 * l1
        /\ Abs(q.v.x * p.y - q.v.y * p.x) <= 2 * l1
        /\ q.v.x * p.x + q.v.y * p.y + q.v.z * p.z > 0

\* The 4x4 array the i-th 64-byte block of `bytes` holds (i from 1).
BlockAt(bytes, i) ==
    [c \in 1..4 |-> [r \in 1..4 |->
        LET off == 64 * (i - 1) + 16 * (c - 1) + 4 * (r - 1)
        IN  F32FromBytes(SubSeq(bytes, off + 1, off + 4))]]

IdentityArray ==
    << <<Scale, 0, 0, 0>>, <<0, Scale, 0, 0>>, <<0, 0, Scale, 0>>, <<0, 0, 0, Scale>> >>

\* ---------------------------------------------------------------------- C1
\* C1: for every grid size n > 0 and displacement d, create_instances(n, d)
\* returns exactly n * n instances in row-major order: the instance at index
\* z * n + x (from 0) has position (x, 0, z) - d.  With n = 2 and d = 0 the
\* positions are (0,0,0), (1,0,0), (0,0,1), (1,0,1) in that order.
C1_RowMajorGrid ==
    (constructed /\ num_instances_per_row > 0) =>
        LET n == num_instances_per_row
            d == instance_displacement
        IN  /\ Len(instances) = n * n
            /\ \A x \in 0..(n - 1) : \A z \in 0..(n - 1) :
                   LET p == instances[z * n + x + 1].position
                   IN  /\ p.x = x * Scale - d.x
                       /\ p.y = 0 - d.y
                       /\ p.z = z * Scale - d.z
            /\ (n = 2 /\ d = ZeroVector) =>
                   [i \in 1..4 |-> instances[i].position] =
                       << Vector3(0, 0, 0), Vector3(Scale, 0, 0),
                          Vector3(0, 0, Scale), Vector3(Scale, 0, Scale) >>

C1_Witness ==
    /\ constructed
    /\ num_instances_per_row = 2
    /\ instance_displacement = ZeroVector
    /\ Len(instances) = 4

C1_WitnessDisplaced ==
    /\ constructed
    /\ num_instances_per_row = MaxGrid
    /\ instance_displacement = Vector3(Half, Half, Scale)

\* ---------------------------------------------------------------------- C2
\* C2: InstanceComponent::default produces exactly one instance, located at
\* the origin.
C2_DefaultIsSingleInstance ==
    via = "default" =>
        /\ Len(instances) = 1
        /\ instances[1].position = ZeroVector

\* What default() builds instead: no instance and no byte.
C2_DefaultIsEmpty ==
    via = "default" =>
        /\ num_instances_per_row = 0
        /\ instances = <<>>
        /\ instance_buffer = <<>>

\* ---------------------------------------------------------------------- C3
\* C3: every instance whose position is exactly the zero vector has the
\* identity rotation, built as 0 degrees about unit z; the rotation of such
\* an instance is never the one built by normalizing its zero-length position
\* (whose components would be NaN).
C3_ZeroPositionIdentityRotation ==
    constructed =>
        \A i \in 1..Len(instances) :
            is_zero(instances[i].position) =>
                /\ instances[i].rotation = from_axis_angle(unit_z, Deg(0))
                /\ instances[i].rotation = IdentityRotation
                /\ instances[i].rotation
                       # from_axis_angle(normalize(instances[i].position), Deg(45))
                /\ ~NotFinite(instances[i].rotation)

C3_Witness ==
    /\ constructed
    /\ num_instances_per_row >= 2
    /\ \E i \in 1..Len(instances) : i > 1 /\ is_zero(instances[i].position)

\* ---------------------------------------------------------------------- C4
\* C4: every instance whose position is non-zero has the unit quaternion of a
\* rotation by exactly 45 degrees about normalize(position); the angle is the
\* same for every such instance, whatever the grid size, displacement or cell.
C4_NonZeroPosition45Degrees ==
    constructed =>
        \A i \in 1..Len(instances) :
            LET p == instances[i].position
                q == instances[i].rotation
            IN  ~is_zero(p) =>
                    /\ q = from_axis_angle(normalize(p), Deg(45))
                    /\ q.s = from_axis_angle(unit_z, Deg(45)).s
                    /\ Is45DegreesAbout(q, p)

\* The same, for the positions whose squared length does not underflow: here
\* those with a component of at least 0.5 in size.
C4_AwayFromUnderflow ==
    constructed =>
        \A i \in 1..Len(instances) :
            LET p == instances[i].position
                q == instances[i].rotation
            IN  (Abs(p.x) >= Half \/ Abs(p.y) >= Half \/ Abs(p.z) >= Half) =>
                    /\ q = from_axis_angle(normalize(p), Deg(45))
                    /\ q.s = from_axis_angle(unit_z, Deg(45)).s
                    /\ Is45DegreesAbout(q, p)

\* A non-zero position whose squared length underflows: its rotation is built
\* from an axis of infinities and NaN.
C4_UnderflowReached ==
    /\ constructed
    /\ \E i \in 1..Len(instances) :
           /\ ~is_zero(instances[i].position)
           /\ magnitude(instances[i].position) = 0
           /\ NotFinite(instances[i].rotation)

\* ---------------------------------------------------------------------- C5
\* C5: for grid size 0 and any displacement create_instances returns the
\* empty sequence, and the data encoded for the instance buffer is empty.
C5_EmptyGrid ==
    (constructed /\ num_instances_per_row = 0) =>
        /\ instances = <<>>
        /\ map_to_raw(instances) = <<>>
        /\ Len(instance_buffer) = 0

C5_Witness ==
    /\ constructed
    /\ via = "new"
    /\ num_instances_per_row = 0
    /\ instance_displacement # ZeroVector

\* ---------------------------------------------------------------------- C6
\* C6: the buffer contents new() builds are one 64-byte block (16 floats of 4
\* bytes) per instance, in sequence order: block i is to_raw of instance i,
\* nothing dropped, duplicated or reordered; the length is 16 * 4 * n * n.
C6_BufferIsBlocksInOrder ==
    constructed =>
        LET n == num_instances_per_row
        IN  /\ Len(instances) = n * n
            /\ Len(instance_buffer) = 16 * 4 * n * n
            /\ \A i \in 1..Len(instances) :
                   BlockAt(instance_buffer, i) = to_raw(instances[i]).model

C6_Witness ==
    /\ constructed
    /\ num_instances_per_row >= 2
    /\ Len(instance_buffer) >= 4 * 64
    /\ \E i, j \in 1..Len(instances) :
           to_raw(instances[i]) # to_raw(instances[j])

\* ---------------------------------------------------------------------- C7
\* C7: the matrix to_raw produces is translation(position) *
\* rotation_matrix(rotation), columns first: its fourth column is
\* (position, 1) whatever the rotation is, and, for a finite rotation,
\* its first three columns are those of the rotation matrix.
C7_ToRawIsTranslationTimesRotation ==
    raw # <<>> =>
        LET m == raw[1].model
            p == self[1].position
            q == self[1].rotation
            r == Matrix4FromQuaternion(q)
        IN  /\ m[4] = <<p.x, p.y, p.z, Scale>>
            /\ ~NotFinite(q) =>
                   /\ m[1] = <<r.x.x, r.x.y, r.x.z, 0>>
                   /\ m[2] = <<r.y.x, r.y.y, r.y.z, 0>>
                   /\ m[3] = <<r.z.x, r.z.y, r.z.z, 0>>

C7_Witness ==
    /\ raw # <<>>
    /\ ~is_zero(self[1].position)
    /\ ~NotFinite(self[1].rotation)
    /\ self[1].rotation # IdentityRotation
    /\ raw[1].model[1] # <<Scale, 0, 0, 0>>

C7_WitnessNaN ==
    /\ raw # <<>>
    /\ ~is_zero(self[1].position)
    /\ NotFinite(self[1].rotation)

\* ---------------------------------------------------------------------- C8
\* C8: with grid size 1 and displacement (0,0,0) create_instances returns a
\* single instance at (0,0,0) with identity rotation, and its encoding is
\* exactly one 64-byte block whose 4x4 matrix is the identity.
C8_SingleCellIdentity ==
    (constructed /\ num_instances_per_row = 1
       /\ instance_displacement = ZeroVector) =>
        /\ instances = <<Instance(ZeroVector, IdentityRotation)>>
        /\ Len(instance_buffer) = 64
        /\ BlockAt(instance_buffer, 1) = IdentityArray

C8_Witness ==
    /\ constructed
    /\ args = <<1, ZeroVector>>
    /\ num_instances_per_row = 1
    /\ instance_displacement = ZeroVector
    /\ Len(instances) = 1

\* ---------------------------------------------------------------------- C9
\* C9: the grid preset (10 per row, displacement (5, 0, 5), half the row
\* length along x and z) produces 100 instances; exactly one, the cell
\* x = z = 5, has zero position and identity rotation, and every other
\* instance has the 45-degree rotation.
C9_GridPreset ==
    (constructed /\ args = <<DEFAULT_INSTANCES_PER_ROW, FANCY_MULTI_INSTANCE_DISPLACEMENT>>
       /\ via = "new") =>
        LET n == num_instances_per_row
            d == instance_displacement
            centre == 5 * n + 5 + 1
        IN  /\ n = 10
            /\ d = Vector3(5 * Scale, 0, 5 * Scale)
            /\ 2 * d.x = n * Scale /\ 2 * d.z = n * Scale
            /\ Len(instances) = 100
            /\ {i \in 1..Len(instances) : is_zero(instances[i].position)} = {centre}
            /\ instances[centre].rotation = IdentityRotation
            /\ \A i \in 1..Len(instances) :
                   i # centre =>
                       Is45DegreesAbout(instances[i].rotation, instances[i].position)

C9_Witness ==
    /\ constructed
    /\ via = "new"
    /\ num_instances_per_row = DEFAULT_INSTANCES_PER_ROW
    /\ instance_displacement = FANCY_MULTI_INSTANCE_DISPLACEMENT
    /\ Len(instances) = 100

====
